---- MODULE Spec2Model ----
(***************************************************************************)
(* The alert-lifecycle hook useSOSAlerts (client/src/hooks/useSOSAlerts.js)*)
(* as a state machine: the hook's React state, the polling timer, the      *)
(* requests in flight and the handlers that run when a request completes.  *)
(* The backend behind sosApi and the geocoding service are not part of the *)
(* hook's file; they are modelled from the interface the specification     *)
(* gives for them.                                                         *)
(*                                                                         *)
(* The profile settings page (client/src/pages/ProfileSettings.jsx) and    *)
(* the reset-password form (client/src/App.jsx) are further state machines *)
(* of the same module; each specification moves one of them and leaves the *)
(* others as constructed.                                                  *)
(***************************************************************************)
EXTENDS Integers, Sequences, FiniteSets, TLC

\* Bounds of the model.
MaxAlerts == 1      \* alerts the server ever creates
MaxInFlight == 2    \* requests that may be in flight at once
MaxHistory == 3     \* history entries the settings page may stack up
MaxPasswordLen == 7 \* characters of a typed password
MaxBattery == 100   \* the largest battery level a caller supplies

VARIABLES
    activeAlert,    \* useState(null): the active-alert slot
    alertHistory,   \* useState([]): resolved alerts, as last fetched
    isLoading,      \* useState(true)
    isTestMode,     \* useState(false)
    pollInterval,   \* pollIntervalRef.current: TRUE while the interval is set
    mounted,        \* the component using the hook is mounted
    loadPending,    \* fetches of loadData's Promise.all not yet settled
    inflight,       \* requests awaiting completion, in the order of issue
    srv,            \* the backend's alerts, by identifier
    nextId,         \* the identifier the backend gives to the next alert
    userActive,     \* the user still issues operations
    ev,             \* what the last completion handler reported
    lastApplied,    \* what the last applied response prescribed for the slot
    lastLate        \* that response belonged to a request overtaken by a later one

\* ProfileSettings
VARIABLES
    profile,            \* useState: the working copy (full_name, email)
    originalProfile,    \* useState: the last-saved copy
    loading,            \* useState(true)
    saving,             \* useState(false)
    hasUnsavedChanges,  \* useState(false): the dirty flag
    showUnsavedModal,   \* useState(false)
    pendingNavigation,  \* useState(null): 0 is null, -1 the back-step marker
    blockNavigationRef, \* useRef(false)
    histPos,            \* history entries between the current one and the page
                        \* visited before the settings page; 0: the user is there
    srvProfile,         \* the profile the backend holds
    preq,               \* the page's requests in flight, in the order of issue
    deleteConfirmText,  \* useState('')
    token,              \* localStorage holds the token
    redirected,         \* window.location.href was set to /login
    modalOutcome,       \* the choice last made in the unsaved-changes modal
    message             \* useState: the banner's type and text

\* the password forms (ResetPassword.handleSubmit, handleChangePassword)
VARIABLES
    password,           \* the new password typed
    confirmPassword,    \* its confirmation
    submitted           \* what the last submission did

\* triggerAlert's argument and the payload it builds
VARIABLES
    options,            \* the options object passed to triggerAlert
    alertData           \* the payload built from it

\* FaceRecognition
VARIABLES
    activeTab,          \* useState('register')
    faceMounted,        \* the page is mounted
    regForm,            \* useState: name, relation, file
    regStatus,          \* useState({ type: '', message: '' })
    isRegistering,      \* useState(false)
    freqs,              \* register requests awaiting their response
    videoRef,           \* videoRef.current is the video element (not null)
    srcObject,          \* the stream attached to the video element, 0: none
    liveStreams,        \* camera streams whose tracks were not stopped
    camPending,         \* getUserMedia requests awaiting the user's answer
    nextStream,         \* the identifier of the next stream
    intervalRef,        \* intervalRef.current, 0: null
    timers,             \* the intervals set and not cleared
    nextTimer,          \* the identifier of the next interval
    recPending,         \* recognize requests awaiting their response
    recognitionResult   \* useState(null): TRUE once a result is shown

\* SOSSettings
VARIABLES
    contacts,           \* useState([]): the local contact list, by identifier
    srvContacts,        \* the contacts the backend holds
    nextContactId,      \* the identifier the backend gives to the next contact
    newContact,         \* useState: name and phone of the add-contact form
    showAddModal,       \* useState(false)
    sosSaving,          \* useState saving
    creqs,              \* contact requests awaiting their response
    sosToast,           \* the last toast shown
    prompt              \* the answer last given to the confirm() prompt

hookVars == <<activeAlert, alertHistory, isLoading, isTestMode, pollInterval, mounted,
              loadPending, inflight, srv, nextId, userActive, ev, lastApplied, lastLate>>

pageVars == <<profile, originalProfile, loading, saving, hasUnsavedChanges,
              showUnsavedModal, pendingNavigation, blockNavigationRef, histPos,
              srvProfile, preq, deleteConfirmText, token, redirected, modalOutcome,
              message>>

formVars == <<password, confirmPassword, submitted>>

payloadVars == <<options, alertData>>

faceVars == <<activeTab, faceMounted, regForm, regStatus, isRegistering, freqs, videoRef,
              srcObject, liveStreams, camPending, nextStream, intervalRef, timers,
              nextTimer, recPending, recognitionResult>>

contactVars == <<contacts, srvContacts, nextContactId, newContact, showAddModal,
                 sosSaving, creqs, sosToast, prompt>>

viewVars == <<payloadVars, faceVars, contactVars>>

vars == <<hookVars, pageVars, formVars, viewVars>>

hookState == <<activeAlert, isTestMode, alertHistory, isLoading>>

----------------------------------------------------------------------------
\* Values

\* null in the active-alert slot, and a null response body
NoAlert == [id |-> 0, status |-> "none", is_test |-> FALSE, loc |-> "none"]

\* location values: none, coordinates without an address, coordinates with an
\* address, and a location sent by updateAlertLocation
TriggerLocs == {"none", "coords", "addr"}

AlertIds == 1..MaxAlerts

\* the request whose failure the last handler caught, the notification the
\* handler showed and how the operation's promise stands
NoEv == [fail |-> "none", toast |-> "none", promise |-> "none"]

Event(fail, toast, promise) == [fail |-> fail, toast |-> toast, promise |-> promise]

\* A request just issued.
Req(op, id, test, loc, tag, geo) ==
    [op |-> op, st |-> "sent", id |-> id, test |-> test, loc |-> loc, tag |-> tag,
     geo |-> geo, data |-> NoAlert, hist |-> <<>>, late |-> FALSE]

Remove(s, i) == SubSeq(s, 1, i - 1) \o SubSeq(s, i + 1, Len(s))

----------------------------------------------------------------------------
\* The backend (sosApi) and the geocoding service

Alert(s, id) ==
    [id |-> id, status |-> s[id].status, is_test |-> s[id].is_test, loc |-> s[id].loc]

Live(s) == {id \in AlertIds : s[id].status \in {"active", "acknowledged"}}

Max(S) == CHOOSE x \in S : \A y \in S : y <= x

\* Get active alert: alert object or null
ServerActive(s) == IF Live(s) = {} THEN NoAlert ELSE Alert(s, Max(Live(s)))

RECURSIVE ResolvedFrom(_, _)
ResolvedFrom(s, id) ==
    IF id = 0 THEN <<>>
    ELSE (IF s[id].status = "resolved" THEN <<id>> ELSE <<>>)
         \o ResolvedFrom(s, id - 1)

\* List alerts with status resolved, most recent first (an alert is named by
\* its identifier)
ServerHistory(s) == ResolvedFrom(s, MaxAlerts)

\* The request can be served: its alert exists, or an identifier is left.
Servable(r) ==
    CASE r.op \in {"ack", "resolve", "cancel", "location"} -> srv[r.id].status # "none"
      [] r.op = "create" -> nextId <= MaxAlerts
      [] OTHER -> TRUE

\* Update alert: the fields sent are written, the updated alert is returned.
ServerAfter(r) ==
    CASE r.op = "create" ->
            [srv EXCEPT ![nextId] = [status |-> "active", is_test |-> r.test, loc |-> r.loc]]
      [] r.op = "ack" -> [srv EXCEPT ![r.id].status = "acknowledged"]
      [] r.op \in {"resolve", "cancel"} -> [srv EXCEPT ![r.id].status = "resolved"]
      [] r.op = "location" -> [srv EXCEPT ![r.id].loc = r.loc]
      [] r.op = "clearHistory" ->
            [id \in AlertIds |->
                IF srv[id].status = "resolved"
                THEN [status |-> "none", is_test |-> FALSE, loc |-> "none"]
                ELSE srv[id]]
      [] OTHER -> srv

ResponseData(r, s) ==
    CASE r.op = "getActive" -> ServerActive(s)
      [] r.op = "create" -> Alert(s, nextId)
      [] r.op \in {"ack", "resolve", "cancel", "location"} -> Alert(s, r.id)
      [] OTHER -> NoAlert

ServerProcess(i) ==
    /\ i \in 1..Len(inflight)
    /\ inflight[i].st = "sent"
    /\ Servable(inflight[i])
    /\ LET r == inflight[i]
           s == ServerAfter(r)
       IN /\ srv' = s
          /\ nextId' = IF r.op = "create" THEN nextId + 1 ELSE nextId
          /\ inflight' = [inflight EXCEPT ![i] =
                [r EXCEPT !.st = "ok",
                          !.data = ResponseData(r, s),
                          !.hist = IF r.op = "getHistory" THEN ServerHistory(s) ELSE <<>>]]
    /\ ev' = NoEv
    /\ UNCHANGED <<activeAlert, alertHistory, isLoading, isTestMode, pollInterval,
                   mounted, loadPending, userActive, lastApplied, lastLate>>
    /\ UNCHANGED <<pageVars, formVars, viewVars>>

----------------------------------------------------------------------------
\* The hook

Room == Len(inflight) < MaxInFlight

Issue(r) ==
    /\ inflight' = Append(inflight, r)
    /\ ev' = NoEv
    /\ UNCHANGED <<activeAlert, alertHistory, isLoading, isTestMode, pollInterval,
                   mounted, loadPending, srv, nextId, userActive, lastApplied, lastLate>>
    /\ UNCHANGED <<pageVars, formVars, viewVars>>

\* setInterval(() => fetchActiveAlert(), 3000)
PollTick ==
    /\ pollInterval
    /\ Room
    /\ Issue(Req("getActive", 0, FALSE, "none", "none", 0))

\* the effect's cleanup
ClearsInterval == TRUE

Unmount ==
    /\ mounted
    /\ mounted' = FALSE
    /\ pollInterval' = IF ClearsInterval THEN FALSE ELSE pollInterval
    /\ ev' = NoEv
    /\ UNCHANGED <<activeAlert, alertHistory, isLoading, isTestMode, loadPending,
                   inflight, srv, nextId, userActive, lastApplied, lastLate>>
    /\ UNCHANGED <<pageVars, formVars, viewVars>>

UserMay == mounted /\ userActive /\ Room

PendingCreates ==
    Cardinality({i \in 1..Len(inflight) :
        \/ inflight[i].op = "geocode"
        \/ inflight[i].op = "create" /\ inflight[i].st = "sent"})

\* alertData.location && !alertData.location.address
GeocodeNeeded(loc) == loc = "coords"

TriggerAlert(isTest, loc) ==
    /\ UserMay
    /\ nextId + PendingCreates <= MaxAlerts
    /\ IF GeocodeNeeded(loc)
       THEN Issue(Req("geocode", 0, isTest, loc, "none", 1))
       ELSE Issue(Req("create", 0, isTest, loc, "none", 0))

\* the identifiers the view can pass: the active alert's and those in the history
KnownIds ==
    {id \in AlertIds : \/ activeAlert.id = id
                       \/ \E k \in 1..Len(alertHistory) : alertHistory[k] = id}

AcknowledgeAlert(id) ==
    /\ UserMay
    /\ Issue(Req("ack", id, FALSE, "none", "none", 0))

ResolveAlert(id) ==
    /\ UserMay
    /\ Issue(Req("resolve", id, FALSE, "none", "none", 0))

\* the body updateAlert is called with
UpdateBody(op) ==
    CASE op = "ack" -> [status |-> "acknowledged", resolved_by |-> "", notes |-> ""]
      [] op = "resolve" -> [status |-> "resolved", resolved_by |-> "Caregiver", notes |-> ""]
      [] op = "cancel" -> [status |-> "resolved", resolved_by |-> "System", notes |-> "Cancelled"]
      [] OTHER -> [status |-> "", resolved_by |-> "", notes |-> ""]

\* cancelAlert without its test of the slot
CancelAlertUnguarded ==
    /\ UserMay
    /\ Issue(Req("cancel", activeAlert.id, FALSE, "none", "none", 0))

CancelAlert ==
    /\ UserMay
    /\ activeAlert # NoAlert
    /\ Issue(Req("cancel", activeAlert.id, FALSE, "none", "none", 0))

ClearHistory ==
    /\ UserMay
    /\ Issue(Req("clearHistory", 0, FALSE, "none", "none", 0))

UpdateAlertLocation ==
    /\ UserMay
    /\ activeAlert # NoAlert
    /\ Issue(Req("location", activeAlert.id, FALSE, "moved", "none", 0))

StopUser ==
    /\ userActive
    /\ userActive' = FALSE
    /\ ev' = NoEv
    /\ UNCHANGED <<activeAlert, alertHistory, isLoading, isTestMode, pollInterval,
                   mounted, loadPending, inflight, srv, nextId, lastApplied, lastLate>>
    /\ UNCHANGED <<pageVars, formVars, viewVars>>

----------------------------------------------------------------------------
\* Completion handlers: the code after each await, and each catch block

\* Variants of the handlers below, each with one slip, against which the
\* properties are tried.

\* a response to acknowledge or to a location update is dropped unless the slot
\* still holds its alert
SlotOnOkGuarded(r, slot) ==
    CASE r.op = "getActive" -> IF r.data # NoAlert THEN r.data ELSE NoAlert
      [] r.op = "create" -> r.data
      [] r.op \in {"ack", "location"} -> IF slot.id = r.data.id THEN r.data ELSE slot
      [] r.op \in {"resolve", "cancel"} -> NoAlert
      [] OTHER -> slot

\* a null poll response leaves the slot as it is
SlotOnOkKeepsOnNull(r, slot) ==
    CASE r.op = "getActive" -> IF r.data # NoAlert THEN r.data ELSE slot
      [] r.op \in {"create", "ack", "location"} -> r.data
      [] r.op \in {"resolve", "cancel"} -> NoAlert
      [] OTHER -> slot

\* acknowledge patches the status of the local alert instead of taking the response
SlotOnOkPatches(r, slot) ==
    CASE r.op = "getActive" -> IF r.data # NoAlert THEN r.data ELSE NoAlert
      [] r.op \in {"create", "location"} -> r.data
      [] r.op = "ack" -> [slot EXCEPT !.status = "acknowledged"]
      [] r.op \in {"resolve", "cancel"} -> NoAlert
      [] OTHER -> slot

\* setActiveAlert on success
SlotOnOk(r, slot) ==
    CASE r.op = "getActive" -> IF r.data # NoAlert THEN r.data ELSE NoAlert
      [] r.op \in {"create", "ack", "location"} -> r.data
      [] r.op \in {"resolve", "cancel"} -> NoAlert
      [] OTHER -> slot

\* setIsTestMode on success
TestOnOk(r, t) ==
    CASE r.op = "getActive" -> IF r.data # NoAlert THEN r.data.is_test ELSE FALSE
      [] r.op = "create" -> r.data.is_test
      [] r.op \in {"resolve", "cancel"} -> FALSE
      [] OTHER -> t

\* setAlertHistory on success
HistoryOnOk(r, h) ==
    CASE r.op = "getHistory" -> r.hist
      [] r.op = "clearHistory" -> <<>>
      [] OTHER -> h

\* resolve and cancel clear the slot even when the request failed
SlotOnFailClears(r, slot) == IF r.op \in {"resolve", "cancel"} THEN NoAlert ELSE slot

\* the catch blocks set no state
SlotOnFail(r, slot) == slot

TestOnFail(r, t) == t

HistoryOnFail(r, h) == h

\* cancel does not refetch the history
FollowUpOkNoRefresh(r) ==
    CASE r.op = "resolve" -> <<Req("getHistory", 0, FALSE, "none", "resolve", 0)>>
      [] r.op = "geocode" -> <<Req("create", 0, r.test, "addr", "none", r.geo)>>
      [] OTHER -> <<>>

\* a geocoding failure ends triggerAlert
FollowUpFailAborts(r) == <<>>

\* requests the handler issues next
FollowUpOk(r) ==
    CASE r.op = "resolve" -> <<Req("getHistory", 0, FALSE, "none", "resolve", 0)>>
      [] r.op = "cancel" -> <<Req("getHistory", 0, FALSE, "none", "cancel", 0)>>
      [] r.op = "geocode" -> <<Req("create", 0, r.test, "addr", "none", r.geo)>>
      [] OTHER -> <<>>

FollowUpFail(r) ==
    CASE r.op = "geocode" -> <<Req("create", 0, r.test, r.loc, "none", r.geo)>>
      [] OTHER -> <<>>

ToastOnOk(r) ==
    CASE r.op \in {"create", "ack", "clearHistory"} -> "success"
      [] r.op = "getHistory" /\ r.tag = "resolve" -> "success"
      [] OTHER -> "none"

\* every catch block shows a failure notification
ToastOnFailAlways(r) == "error"

\* toast.error in the catch blocks
ToastOnFail(r) ==
    CASE r.op \in {"create", "ack", "resolve", "clearHistory"} -> "error"
      [] r.op = "getHistory" /\ r.tag = "resolve" -> "success"
      [] OTHER -> "none"

\* how the operation's promise settles when its request fails
PromiseOnFail(r) ==
    CASE r.op = "create" -> "rejected"
      [] r.op \in {"ack", "resolve", "cancel", "clearHistory", "location"} -> "fulfilled"
      [] r.op = "getHistory" /\ r.tag \in {"resolve", "cancel"} -> "fulfilled"
      [] r.op = "geocode" -> "pending"
      [] OTHER -> "none"

PromiseOnOk(r) ==
    CASE r.op \in {"create", "ack", "clearHistory", "location"} -> "fulfilled"
      [] r.op \in {"resolve", "cancel", "geocode"} -> "pending"
      [] r.op = "getHistory" /\ r.tag \in {"resolve", "cancel"} -> "fulfilled"
      [] OTHER -> "none"

SlotWriter(r) == r.op \in {"getActive", "create", "ack", "location", "resolve", "cancel"}

\* what the response prescribes for the slot: its alert, or empty after a resolve
Prescribed(r) == IF r.op \in {"resolve", "cancel"} THEN NoAlert ELSE r.data

\* requests issued before the one at i are overtaken by it
Overtake(s, i) == [k \in 1..Len(s) |-> IF k < i THEN [s[k] EXCEPT !.late = TRUE] ELSE s[k]]

\* setIsLoading(false) as soon as one of the two fetches settled
SettleFirst(r) ==
    /\ loadPending' = IF r.tag = "init" THEN loadPending - 1 ELSE loadPending
    /\ isLoading' = IF r.tag = "init" THEN FALSE ELSE isLoading

\* loadData: setIsLoading(false) once both fetches of Promise.all settled
Settle(r) ==
    /\ loadPending' = IF r.tag = "init" THEN loadPending - 1 ELSE loadPending
    /\ isLoading' = IF r.tag = "init" /\ loadPending = 1 THEN FALSE ELSE isLoading

DeliverOk(i) ==
    /\ i \in 1..Len(inflight)
    /\ inflight[i].st = "ok"
    /\ LET r == inflight[i]
       IN /\ activeAlert' = SlotOnOk(r, activeAlert)
          /\ isTestMode' = TestOnOk(r, isTestMode)
          /\ alertHistory' = HistoryOnOk(r, alertHistory)
          /\ Settle(r)
          /\ inflight' = (IF SlotWriter(r) THEN Remove(Overtake(inflight, i), i)
                          ELSE Remove(inflight, i)) \o FollowUpOk(r)
          /\ ev' = Event("none", ToastOnOk(r), PromiseOnOk(r))
          /\ lastApplied' = IF SlotWriter(r) THEN Prescribed(r) ELSE lastApplied
          /\ lastLate' = IF SlotWriter(r) THEN r.late ELSE lastLate
    /\ UNCHANGED <<pollInterval, mounted, srv, nextId, userActive>>
    /\ UNCHANGED <<pageVars, formVars, viewVars>>

\* The request fails: the server rejected it or the transport gave up.
DeliverFail(i) ==
    /\ i \in 1..Len(inflight)
    /\ LET r == inflight[i]
       IN /\ activeAlert' = SlotOnFail(r, activeAlert)
          /\ isTestMode' = TestOnFail(r, isTestMode)
          /\ alertHistory' = HistoryOnFail(r, alertHistory)
          /\ Settle(r)
          /\ inflight' = Remove(inflight, i) \o FollowUpFail(r)
          /\ ev' = Event(r.op, ToastOnFail(r), PromiseOnFail(r))
    /\ UNCHANGED <<pollInterval, mounted, srv, nextId, userActive, lastApplied, lastLate>>
    /\ UNCHANGED <<pageVars, formVars, viewVars>>

----------------------------------------------------------------------------
\* The payload of triggerAlert

\* an option the caller left out, and one it supplied
Omitted(v) == [given |-> FALSE, v |-> v]

Given(v) == [given |-> TRUE, v |-> v]

BatteryLevels == 0..MaxBattery

Statuses == {"online", "offline"}

\* the options objects a caller can pass
OptionSets ==
    [isTest : {Omitted(FALSE), Given(FALSE), Given(TRUE)},
     location : TriggerLocs,
     batteryLevel : {Omitted(0)} \cup {Given(b) : b \in BatteryLevels},
     connectionStatus : {Omitted("")} \cup {Given(s) : s \in Statuses}]

\* null in battery_level, and a number in it
NullLevel == [null |-> TRUE, v |-> 0]

Level(b) == [null |-> FALSE, v |-> b]

\* options.isTest || false
TestOrFalse(o) == IF o.given /\ o.v THEN TRUE ELSE FALSE

\* options.batteryLevel || null: undefined and 0 are falsy
LevelOrNull(o) == IF o.given /\ o.v # 0 THEN Level(o.v) ELSE NullLevel

\* options.connectionStatus || 'online': undefined and '' are falsy
StatusOrOnline(o) == IF o.given /\ o.v # "" THEN o.v ELSE "online"

NoPayload ==
    [built |-> FALSE, is_test |-> FALSE, location |-> "none", battery_level |-> NullLevel,
     connection_status |-> ""]

\* const alertData = { ... }
AlertData(o) ==
    [built |-> TRUE,
     is_test |-> TestOrFalse(o.isTest),
     location |-> o.location,
     battery_level |-> LevelOrNull(o.batteryLevel),
     connection_status |-> StatusOrOnline(o.connectionStatus)]

\* triggerAlert builds its payload
BuildAlertData ==
    /\ ~alertData.built
    /\ alertData' = AlertData(options)
    /\ UNCHANGED options
    /\ UNCHANGED <<hookVars, pageVars, formVars, faceVars, contactVars>>

----------------------------------------------------------------------------
\* The profile settings page

\* null or a missing field in a profile the backend returns
Null == "<null>"

\* what the user can type in the name and the email field
TypedNames == {"", "a"}

TypedEmails == {"", "x"}

\* what the backend can hold before the page is opened
ServerNames == {Null, "a"}

ServerEmails == {"x"}

\* texts typed in the delete-account confirmation field
DeleteTexts == {"", "delete", "DELETE"}

Fields(n, e) == [full_name |-> n, email |-> e]

NoMessage == [type |-> "", text |-> ""]

Message(type, text) == [type |-> type, text |-> text]

\* value || ''
OrEmpty(v) == IF v = Null THEN "" ELSE v

\* profile.full_name !== originalProfile.full_name || profile.email !== originalProfile.email
Differs(p, o) == p.full_name # o.full_name \/ p.email # o.email

\* the effect raises the flag and never lowers it
TrackedFlagRaises(p, o, ld, hasH, touched) ==
    IF touched /\ ~ld /\ Differs(p, o) THEN TRUE ELSE hasH

\* The track-changes effect: it runs after a render in which profile,
\* originalProfile or loading changed (touched), and only once loading is over.
\* hasH is the flag as the handler left it.
TrackedFlag(p, o, ld, hasH, touched) == IF touched /\ ~ld THEN Differs(p, o) ELSE hasH

\* the effect does not write the ref
TrackedRefStale(p, o, ld, refH, touched) == refH

\* the same effect's write to blockNavigationRef.current
TrackedRef(p, o, ld, refH, touched) == IF touched /\ ~ld THEN Differs(p, o) ELSE refH

\* The popstate effect runs again when hasUnsavedChanges turns true and then
\* pushes one history entry for the current location.
Pushes(hasH, hasAfter) == IF hasAfter /\ ~hasH THEN 1 ELSE 0

\* the handler does not push the location again
PosAfterBlockedBackNoPush(pos) == pos - 1

\* handlePopState while blocking: the browser has gone one entry back, the
\* handler pushes the current location again
PosAfterBlockedBack(pos) == (pos - 1) + 1

\* navigate(-1)
PosAfterNavigateBack(pos) == pos - 1

\* the page is shown: the user has not left it and was not redirected
PageOpen == histPos >= 1 /\ ~redirected

PageRoom == Len(preq) < MaxInFlight

PReq(op, n, e, nav, pend) == [op |-> op, name |-> n, email |-> e, nav |-> nav, pend |-> pend]

\* the state setters of a handler followed by the render and its effects
Render(p, o, ld, hasH, refH, touched, pos) ==
    LET has == TrackedFlag(p, o, ld, hasH, touched)
    IN /\ profile' = p
       /\ originalProfile' = o
       /\ loading' = ld
       /\ hasUnsavedChanges' = has
       /\ blockNavigationRef' = TrackedRef(p, o, ld, refH, touched)
       /\ histPos' = pos + Pushes(hasH, has)

\* fetchProfile, success
FetchProfileOk(i) ==
    /\ PageOpen
    /\ i \in 1..Len(preq)
    /\ preq[i].op = "getProfile"
    /\ Render(srvProfile,
              Fields(OrEmpty(srvProfile.full_name), OrEmpty(srvProfile.email)),
              FALSE, hasUnsavedChanges, blockNavigationRef, TRUE, histPos)
    /\ preq' = Remove(preq, i)
    /\ UNCHANGED <<saving, showUnsavedModal, pendingNavigation, srvProfile,
                   deleteConfirmText, token, redirected, modalOutcome, message>>
    /\ UNCHANGED <<hookVars, formVars, viewVars>>

\* fetchProfile, failure
FetchProfileFail(i) ==
    /\ PageOpen
    /\ i \in 1..Len(preq)
    /\ preq[i].op = "getProfile"
    /\ Render(profile, originalProfile, FALSE, hasUnsavedChanges, blockNavigationRef,
              TRUE, histPos)
    /\ message' = Message("error", "Failed to load profile")
    /\ preq' = Remove(preq, i)
    /\ UNCHANGED <<saving, showUnsavedModal, pendingNavigation, srvProfile,
                   deleteConfirmText, token, redirected, modalOutcome>>
    /\ UNCHANGED <<hookVars, formVars, viewVars>>

\* the history may grow by one more entry
MayPush(p, o) == Differs(p, o) /\ ~hasUnsavedChanges => histPos < MaxHistory

\* onChange of the name field
EditName(v) ==
    /\ PageOpen
    /\ ~loading
    /\ v # OrEmpty(profile.full_name)
    /\ MayPush([profile EXCEPT !.full_name = v], originalProfile)
    /\ Render([profile EXCEPT !.full_name = v], originalProfile, loading,
              hasUnsavedChanges, blockNavigationRef, TRUE, histPos)
    /\ UNCHANGED <<saving, showUnsavedModal, pendingNavigation, srvProfile, preq,
                   deleteConfirmText, token, redirected, modalOutcome, message>>
    /\ UNCHANGED <<hookVars, formVars, viewVars>>

\* onChange of the email field
EditEmail(v) ==
    /\ PageOpen
    /\ ~loading
    /\ v # OrEmpty(profile.email)
    /\ MayPush([profile EXCEPT !.email = v], originalProfile)
    /\ Render([profile EXCEPT !.email = v], originalProfile, loading,
              hasUnsavedChanges, blockNavigationRef, TRUE, histPos)
    /\ UNCHANGED <<saving, showUnsavedModal, pendingNavigation, srvProfile, preq,
                   deleteConfirmText, token, redirected, modalOutcome, message>>
    /\ UNCHANGED <<hookVars, formVars, viewVars>>

\* handleSave up to its await
StartSave(shouldNavigate) ==
    /\ PageRoom
    /\ saving' = TRUE
    /\ message' = NoMessage
    /\ preq' = Append(preq, PReq("updateProfile", profile.full_name, profile.email,
                                  shouldNavigate, pendingNavigation))
    /\ UNCHANGED <<profile, originalProfile, loading, hasUnsavedChanges, pendingNavigation,
                   blockNavigationRef, histPos, srvProfile, deleteConfirmText, token,
                   redirected>>
    /\ UNCHANGED <<hookVars, formVars, viewVars>>

\* the Save Changes button: shown while dirty, disabled while saving
SaveClick ==
    /\ PageOpen
    /\ ~loading
    /\ hasUnsavedChanges
    /\ ~saving
    /\ StartSave(FALSE)
    /\ UNCHANGED <<showUnsavedModal, modalOutcome>>

\* the modal's onSave
ModalSave ==
    /\ PageOpen
    /\ showUnsavedModal
    /\ showUnsavedModal' = FALSE
    /\ modalOutcome' = "save"
    /\ StartSave(TRUE)

\* the last-saved copy after a successful save: what was sent
OriginalAfterSave(r, o) == Fields(r.name, r.email)

\* the catch block of handleSave sets the message only
OriginalAfterFailedSave(r, o) == o

\* shouldNavigate && pendingNavigation, as handleSave captured them
SaveNavigates(r) == r.nav /\ r.pend # 0

\* handleSave after its await, success.  The traversal asked by navigate(-1)
\* and the effects of the render are not ordered.  When the working copy was
\* edited while the request was in flight the flag turns true again and the
\* popstate effect pushes an entry: a traversal coming before that is not
\* blocked (the ref is false), one coming after it is blocked like a back
\* attempt.  A traversal that leaves the page unmounts it: no effect runs.
SaveOk(i) ==
    /\ PageOpen
    /\ i \in 1..Len(preq)
    /\ preq[i].op = "updateProfile"
    /\ LET r == preq[i]
           o == OriginalAfterSave(r, originalProfile)
           again == Differs(profile, o)
       IN /\ again => histPos < MaxHistory
          /\ srvProfile' = Fields(r.name, r.email)
          /\ \/ /\ ~SaveNavigates(r)
                /\ Render(profile, o, loading, FALSE, FALSE, TRUE, histPos)
                /\ UNCHANGED <<pendingNavigation, showUnsavedModal>>
             \/ /\ SaveNavigates(r)
                /\ PosAfterNavigateBack(histPos) = 0
                /\ Render(profile, o, loading, FALSE, FALSE, FALSE, 0)
                /\ pendingNavigation' = 0
                /\ UNCHANGED showUnsavedModal
             \/ /\ SaveNavigates(r)
                /\ PosAfterNavigateBack(histPos) >= 1
                /\ Render(profile, o, loading, FALSE, FALSE, TRUE,
                          PosAfterNavigateBack(histPos))
                /\ pendingNavigation' = 0
                /\ UNCHANGED showUnsavedModal
             \/ /\ SaveNavigates(r)
                /\ again
                /\ Render(profile, o, loading, FALSE, FALSE, TRUE,
                          PosAfterBlockedBack(histPos))
                /\ pendingNavigation' = -1
                /\ showUnsavedModal' = TRUE
    /\ message' = Message("success", "Profile updated successfully!")
    /\ saving' = FALSE
    /\ preq' = Remove(preq, i)
    /\ UNCHANGED <<deleteConfirmText, token, redirected, modalOutcome>>
    /\ UNCHANGED <<hookVars, formVars, viewVars>>

\* handleSave after its await, failure
SaveFail(i) ==
    /\ PageOpen
    /\ i \in 1..Len(preq)
    /\ preq[i].op = "updateProfile"
    /\ originalProfile' = OriginalAfterFailedSave(preq[i], originalProfile)
    /\ message' = Message("error", "Failed to update profile")
    /\ saving' = FALSE
    /\ preq' = Remove(preq, i)
    /\ UNCHANGED <<profile, loading, hasUnsavedChanges, showUnsavedModal,
                   pendingNavigation, blockNavigationRef, histPos, srvProfile,
                   deleteConfirmText, token, redirected, modalOutcome>>
    /\ UNCHANGED <<hookVars, formVars, viewVars>>

\* setTimeout(() => setMessage({ type: '', text: '' }), 3000) after a success
MessageTimeout ==
    /\ PageOpen
    /\ message.type = "success"
    /\ message' = NoMessage
    /\ UNCHANGED <<profile, originalProfile, loading, saving, hasUnsavedChanges,
                   showUnsavedModal, pendingNavigation, blockNavigationRef, histPos,
                   srvProfile, preq, deleteConfirmText, token, redirected, modalOutcome>>
    /\ UNCHANGED <<hookVars, formVars, viewVars>>

\* The browser's back button.  The popstate listener is registered while
\* hasUnsavedChanges holds; popstate fires when the entry reached belongs to
\* the page.
Blocks == hasUnsavedChanges /\ blockNavigationRef /\ histPos - 1 >= 1

Back ==
    /\ PageOpen
    /\ IF Blocks
       THEN /\ histPos' = PosAfterBlockedBack(histPos)
            /\ showUnsavedModal' = TRUE
            /\ pendingNavigation' = -1
       ELSE /\ histPos' = histPos - 1
            /\ UNCHANGED <<showUnsavedModal, pendingNavigation>>
    /\ UNCHANGED <<profile, originalProfile, loading, saving, hasUnsavedChanges,
                   blockNavigationRef, srvProfile, preq, deleteConfirmText, token,
                   redirected, modalOutcome, message>>
    /\ UNCHANGED <<hookVars, formVars, viewVars>>

\* the working copy handleDiscard sets
ProfileAfterDiscard(p, o) == [p EXCEPT !.full_name = o.full_name, !.email = o.email]

\* handleDiscard (the modal's onDiscard)
Discard ==
    /\ PageOpen
    /\ showUnsavedModal
    /\ Render(ProfileAfterDiscard(profile, originalProfile), originalProfile, loading,
              FALSE, FALSE, TRUE,
              IF pendingNavigation # 0 THEN PosAfterNavigateBack(histPos) ELSE histPos)
    /\ showUnsavedModal' = FALSE
    /\ pendingNavigation' = 0
    /\ modalOutcome' = "discard"
    /\ UNCHANGED <<saving, srvProfile, preq, deleteConfirmText, token, redirected, message>>
    /\ UNCHANGED <<hookVars, formVars, viewVars>>

\* onCancel closes the modal only
PendingAfterCancelKept(pend) == pend

\* what the modal's onCancel leaves in pendingNavigation: null
PendingAfterCancel(pend) == 0

\* the modal's onCancel
CancelModal ==
    /\ PageOpen
    /\ showUnsavedModal
    /\ showUnsavedModal' = FALSE
    /\ pendingNavigation' = PendingAfterCancel(pendingNavigation)
    /\ modalOutcome' = "cancel"
    /\ UNCHANGED <<profile, originalProfile, loading, saving, hasUnsavedChanges,
                   blockNavigationRef, histPos, srvProfile, preq, deleteConfirmText,
                   token, redirected, message>>
    /\ UNCHANGED <<hookVars, formVars, viewVars>>

\* onChange of the confirmation field of the delete-account modal
TypeDeleteText(v) ==
    /\ PageOpen
    /\ ~loading
    /\ v # deleteConfirmText
    /\ deleteConfirmText' = v
    /\ UNCHANGED <<profile, originalProfile, loading, saving, hasUnsavedChanges,
                   showUnsavedModal, pendingNavigation, blockNavigationRef, histPos,
                   srvProfile, preq, token, redirected, modalOutcome, message>>
    /\ UNCHANGED <<hookVars, formVars, viewVars>>

\* the comparison ignoring case
DeleteConfirmedAnyCase(text) == text \in {"DELETE", "delete"}

\* deleteConfirmText !== 'DELETE' is false
DeleteConfirmed(text) == text = "DELETE"

\* disabled={deleteConfirmText !== 'DELETE'}
DeleteButtonDisabled == deleteConfirmText # "DELETE"

\* handleDeleteAccount up to its await
HandleDeleteAccount ==
    /\ PageOpen
    /\ ~loading
    /\ IF DeleteConfirmed(deleteConfirmText)
       THEN /\ PageRoom
            /\ preq' = Append(preq, PReq("deleteAccount", deleteConfirmText, "", FALSE, 0))
            /\ UNCHANGED message
       ELSE /\ message' = Message("error", "Please type DELETE to confirm")
            /\ UNCHANGED preq
    /\ UNCHANGED <<profile, originalProfile, loading, saving, hasUnsavedChanges,
                   showUnsavedModal, pendingNavigation, blockNavigationRef, histPos,
                   srvProfile, deleteConfirmText, token, redirected, modalOutcome>>
    /\ UNCHANGED <<hookVars, formVars, viewVars>>

\* handleDeleteAccount after its await, success
DeleteOk(i) ==
    /\ PageOpen
    /\ i \in 1..Len(preq)
    /\ preq[i].op = "deleteAccount"
    /\ token' = FALSE
    /\ redirected' = TRUE
    /\ UNCHANGED modalOutcome
    /\ preq' = Remove(preq, i)
    /\ UNCHANGED <<profile, originalProfile, loading, saving, hasUnsavedChanges,
                   showUnsavedModal, pendingNavigation, blockNavigationRef, histPos,
                   srvProfile, deleteConfirmText, message>>
    /\ UNCHANGED <<hookVars, formVars, viewVars>>

\* handleDeleteAccount after its await, failure
DeleteFail(i) ==
    /\ PageOpen
    /\ i \in 1..Len(preq)
    /\ preq[i].op = "deleteAccount"
    /\ message' = Message("error", "Failed to delete account")
    /\ preq' = Remove(preq, i)
    /\ UNCHANGED <<profile, originalProfile, loading, saving, hasUnsavedChanges,
                   showUnsavedModal, pendingNavigation, blockNavigationRef, histPos,
                   srvProfile, deleteConfirmText, token, redirected, modalOutcome>>
    /\ UNCHANGED <<hookVars, formVars, viewVars>>

\* file.size > 5 * 1024 * 1024, in bytes
MaxImageSize == 5242880

\* the files the picker can hand over: none, or a file with its type and size
NoFile == [picked |-> FALSE, major |-> "", size |-> 0]

File(major, size) == [picked |-> TRUE, major |-> major, size |-> size]

PickedFiles ==
    {NoFile} \cup {File(m, s) : m \in {"image", "text"}, s \in {MaxImageSize, MaxImageSize + 1}}

\* file.type.startsWith('image/')
IsImage(f) == f.major = "image"

\* useState uploadingImage: true from the request to its finally block
UploadingImage == \E i \in 1..Len(preq) : preq[i].op \in {"uploadImage", "deleteImage"}

\* the working copy after an image response: setProfile(response.data)
ProfileAfterImage(p, data) == data

\* handleImageUpload up to its await; the buttons opening the picker are
\* disabled while uploadingImage
HandleImageUpload(f) ==
    /\ PageOpen
    /\ ~loading
    /\ ~UploadingImage
    /\ f.picked
    /\ IF ~IsImage(f)
       THEN /\ message' = Message("error", "Please select an image file")
            /\ UNCHANGED preq
       ELSE IF f.size > MaxImageSize
       THEN /\ message' = Message("error", "Image size must be less than 5MB")
            /\ UNCHANGED preq
       ELSE /\ PageRoom
            /\ message' = NoMessage
            /\ preq' = Append(preq, PReq("uploadImage", "", "", FALSE, 0))
    /\ UNCHANGED <<profile, originalProfile, loading, saving, hasUnsavedChanges,
                   showUnsavedModal, pendingNavigation, blockNavigationRef, histPos,
                   srvProfile, deleteConfirmText, token, redirected, modalOutcome>>
    /\ UNCHANGED <<hookVars, formVars, viewVars>>

\* handleDeleteImage up to its await (the button is shown while the profile
\* has an image, which the model does not track)
HandleDeleteImage ==
    /\ PageOpen
    /\ ~loading
    /\ ~UploadingImage
    /\ PageRoom
    /\ message' = NoMessage
    /\ preq' = Append(preq, PReq("deleteImage", "", "", FALSE, 0))
    /\ UNCHANGED <<profile, originalProfile, loading, saving, hasUnsavedChanges,
                   showUnsavedModal, pendingNavigation, blockNavigationRef, histPos,
                   srvProfile, deleteConfirmText, token, redirected, modalOutcome>>
    /\ UNCHANGED <<hookVars, formVars, viewVars>>

\* handleImageUpload and handleDeleteImage after their await, success: the
\* response is the profile as the backend holds it
ImageOk(i) ==
    /\ PageOpen
    /\ i \in 1..Len(preq)
    /\ preq[i].op \in {"uploadImage", "deleteImage"}
    /\ MayPush(ProfileAfterImage(profile, srvProfile), originalProfile)
    /\ Render(ProfileAfterImage(profile, srvProfile), originalProfile, loading,
              hasUnsavedChanges, blockNavigationRef, TRUE, histPos)
    /\ message' = Message("success", "Profile image updated successfully!")
    /\ preq' = Remove(preq, i)
    /\ UNCHANGED <<saving, showUnsavedModal, pendingNavigation, srvProfile,
                   deleteConfirmText, token, redirected, modalOutcome>>
    /\ UNCHANGED <<hookVars, formVars, viewVars>>

\* handleImageUpload and handleDeleteImage after their await, failure
ImageFail(i) ==
    /\ PageOpen
    /\ i \in 1..Len(preq)
    /\ preq[i].op \in {"uploadImage", "deleteImage"}
    /\ message' = Message("error", "Failed to upload image")
    /\ preq' = Remove(preq, i)
    /\ UNCHANGED <<profile, originalProfile, loading, saving, hasUnsavedChanges,
                   showUnsavedModal, pendingNavigation, blockNavigationRef, histPos,
                   srvProfile, deleteConfirmText, token, redirected, modalOutcome>>
    /\ UNCHANGED <<hookVars, formVars, viewVars>>

----------------------------------------------------------------------------
\* The two password forms: the reset page and the change-password dialog

\* password.length < 6
MinPasswordLength == 6

PasswordChars == {"a", "b"}

Passwords == UNION {[1..n -> PasswordChars] : n \in 0..MaxPasswordLen}

NoSubmission == [form |-> "none", stage |-> "none", toast |-> "", sent |-> <<>>]

Submission(form, stage, toast, sent) ==
    [form |-> form, stage |-> stage, toast |-> toast, sent |-> sent]

\* the two checks taken in the other order
PasswordCheckLengthFirst(pw, cf) ==
    IF Len(pw) < MinPasswordLength THEN "short"
    ELSE IF pw # cf THEN "mismatch"
    ELSE "pass"

\* the validation both forms do, in the order checked
PasswordCheck(pw, cf) ==
    IF pw # cf THEN "mismatch"
    ELSE IF Len(pw) < MinPasswordLength THEN "short"
    ELSE "pass"

\* no request of a form is being awaited
FormIdle == submitted.stage # "sent"

\* ResetPassword.handleSubmit up to its await
HandleSubmit ==
    /\ FormIdle
    /\ LET c == PasswordCheck(password, confirmPassword)
       IN submitted' =
            IF c = "mismatch"
            THEN Submission("reset", "rejected", "Passwords do not match", <<>>)
            ELSE IF c = "short"
            THEN Submission("reset", "rejected", "Password must be at least 6 characters", <<>>)
            ELSE Submission("reset", "sent", "", password)
    /\ UNCHANGED <<password, confirmPassword>>
    /\ UNCHANGED <<hookVars, pageVars, viewVars>>

\* ResetPassword.handleSubmit after its await, success
ResetOk ==
    /\ submitted.form = "reset"
    /\ submitted.stage = "sent"
    /\ submitted' = [submitted EXCEPT !.stage = "ok", !.toast = "Password reset successfully!"]
    /\ UNCHANGED <<password, confirmPassword>>
    /\ UNCHANGED <<hookVars, pageVars, viewVars>>

\* ResetPassword.handleSubmit after its await, failure
ResetFail ==
    /\ submitted.form = "reset"
    /\ submitted.stage = "sent"
    /\ submitted' = [submitted EXCEPT !.stage = "failed", !.toast = "Failed to reset password"]
    /\ UNCHANGED <<password, confirmPassword>>
    /\ UNCHANGED <<hookVars, pageVars, viewVars>>

\* handleChangePassword up to its await; password and confirmPassword stand for
\* passwordData.new_password and passwordData.confirm_password
HandleChangePassword ==
    /\ PageOpen
    /\ ~loading
    /\ FormIdle
    /\ LET c == PasswordCheck(password, confirmPassword)
       IN IF c = "mismatch"
          THEN /\ message' = Message("error", "New passwords do not match")
               /\ submitted' = Submission("change", "rejected", "", <<>>)
               /\ UNCHANGED saving
          ELSE IF c = "short"
          THEN /\ message' = Message("error", "Password must be at least 6 characters")
               /\ submitted' = Submission("change", "rejected", "", <<>>)
               /\ UNCHANGED saving
          ELSE /\ message' = NoMessage
               /\ submitted' = Submission("change", "sent", "", password)
               /\ saving' = TRUE
    /\ UNCHANGED <<password, confirmPassword>>
    /\ UNCHANGED <<profile, originalProfile, loading, hasUnsavedChanges, showUnsavedModal,
                   pendingNavigation, blockNavigationRef, histPos, srvProfile, preq,
                   deleteConfirmText, token, redirected, modalOutcome>>
    /\ UNCHANGED <<hookVars, viewVars>>

\* handleChangePassword after its await, success
ChangeOk ==
    /\ submitted.form = "change"
    /\ submitted.stage = "sent"
    /\ submitted' = [submitted EXCEPT !.stage = "ok"]
    /\ message' = Message("success", "Password changed successfully!")
    /\ password' = <<>>
    /\ confirmPassword' = <<>>
    /\ saving' = FALSE
    /\ UNCHANGED <<profile, originalProfile, loading, hasUnsavedChanges, showUnsavedModal,
                   pendingNavigation, blockNavigationRef, histPos, srvProfile, preq,
                   deleteConfirmText, token, redirected, modalOutcome>>
    /\ UNCHANGED <<hookVars, viewVars>>

\* handleChangePassword after its await, failure
ChangeFail ==
    /\ submitted.form = "change"
    /\ submitted.stage = "sent"
    /\ submitted' = [submitted EXCEPT !.stage = "failed"]
    /\ message' = Message("error", "Failed to change password")
    /\ saving' = FALSE
    /\ UNCHANGED <<password, confirmPassword>>
    /\ UNCHANGED <<profile, originalProfile, loading, hasUnsavedChanges, showUnsavedModal,
                   pendingNavigation, blockNavigationRef, histPos, srvProfile, preq,
                   deleteConfirmText, token, redirected, modalOutcome>>
    /\ UNCHANGED <<hookVars, viewVars>>

----------------------------------------------------------------------------
\* The face page (FaceRecognition): the two tabs, the camera, the recognition
\* timer and the register form

\* the recognition tab is entered at most this often in a behaviour
MaxCamera == 2

Tabs == {"register", "recognize"}

NoStatus == [type |-> "", message |-> ""]

Status(type, text) == [type |-> type, message |-> text]

TypedText == {"", "n"}

PickedPhotos == {"photo"}

RegForm(n, r, f) == [name |-> n, relation |-> r, file |-> f]

\* the video element is rendered on the recognition tab only
VideoRendered(tab) == tab = "recognize"

\* the register tab is the only place where regStatus.message is rendered
StatusRendered(tab) == tab = "register"

\* stopCamera: the tracks stop only when the video element and its stream are there
StopCamera(ref, src, live, iref, tms) ==
    [srcObject   |-> IF ref /\ src # 0 THEN 0 ELSE src,
     liveStreams |-> IF ref /\ src # 0 THEN live \ {src} ELSE live,
     intervalRef |-> 0,
     timers      |-> IF iref # 0 THEN tms \ {iref} ELSE tms]

\* setActiveTab(tab): the render attaches or detaches the video element, then
\* the cleanup of the last effect runs stopCamera, then the effect of the new
\* tab runs: startCamera and startRecognitionLoop, or stopCamera once more
SetActiveTab(tab) ==
    /\ faceMounted
    /\ tab # activeTab
    /\ tab = "recognize" => nextTimer <= MaxCamera
    /\ activeTab' = tab
    /\ videoRef' = VideoRendered(tab)
    /\ LET cleaned == StopCamera(VideoRendered(tab), 0, liveStreams, intervalRef, timers)
       IN  IF tab = "recognize"
           THEN /\ camPending' = camPending + 1
                /\ srcObject' = cleaned.srcObject
                /\ liveStreams' = cleaned.liveStreams
                /\ timers' = (IF cleaned.intervalRef # 0
                              THEN cleaned.timers \ {cleaned.intervalRef}
                              ELSE cleaned.timers) \cup {nextTimer}
                /\ intervalRef' = nextTimer
                /\ nextTimer' = nextTimer + 1
           ELSE LET stopped == StopCamera(VideoRendered(tab), cleaned.srcObject,
                                          cleaned.liveStreams, cleaned.intervalRef,
                                          cleaned.timers)
                IN  /\ srcObject' = stopped.srcObject
                    /\ liveStreams' = stopped.liveStreams
                    /\ intervalRef' = stopped.intervalRef
                    /\ timers' = stopped.timers
                    /\ UNCHANGED <<camPending, nextTimer>>
    /\ UNCHANGED <<faceMounted, regForm, regStatus, isRegistering, freqs, nextStream,
                   recPending, recognitionResult>>
    /\ UNCHANGED <<hookVars, pageVars, formVars, payloadVars, contactVars>>

\* the user allows the camera: getUserMedia resolves with a live stream, which
\* is attached if the video element is there
CameraGranted ==
    /\ camPending > 0
    /\ camPending' = camPending - 1
    /\ liveStreams' = liveStreams \cup {nextStream}
    /\ srcObject' = IF videoRef THEN nextStream ELSE srcObject
    /\ nextStream' = nextStream + 1
    /\ UNCHANGED <<activeTab, faceMounted, regForm, regStatus, isRegistering, freqs,
                   videoRef, intervalRef, timers, nextTimer, recPending,
                   recognitionResult>>
    /\ UNCHANGED <<hookVars, pageVars, formVars, payloadVars, contactVars>>

\* the user or the browser refuses the camera: getUserMedia rejects
CameraDenied ==
    /\ camPending > 0
    /\ camPending' = camPending - 1
    /\ regStatus' = IF faceMounted
                    THEN Status("error", "Could not access camera. Please allow permissions.")
                    ELSE regStatus
    /\ UNCHANGED <<activeTab, faceMounted, regForm, isRegistering, freqs, videoRef,
                   srcObject, liveStreams, nextStream, intervalRef, timers, nextTimer,
                   recPending, recognitionResult>>
    /\ UNCHANGED <<hookVars, pageVars, formVars, payloadVars, contactVars>>

\* the page is left: the video element is detached, then the cleanup runs
UnmountFace ==
    /\ faceMounted
    /\ faceMounted' = FALSE
    /\ videoRef' = FALSE
    /\ LET cleaned == StopCamera(FALSE, 0, liveStreams, intervalRef, timers)
       IN  /\ srcObject' = cleaned.srcObject
           /\ liveStreams' = cleaned.liveStreams
           /\ intervalRef' = cleaned.intervalRef
           /\ timers' = cleaned.timers
    /\ UNCHANGED <<activeTab, regForm, regStatus, isRegistering, freqs, camPending,
                   nextStream, nextTimer, recPending, recognitionResult>>
    /\ UNCHANGED <<hookVars, pageVars, formVars, payloadVars, contactVars>>

\* a tick of the recognition timer that finds a playing video posts a frame
RecognitionTick ==
    /\ timers # {}
    /\ videoRef
    /\ srcObject # 0
    /\ recPending < MaxInFlight
    /\ recPending' = recPending + 1
    /\ UNCHANGED <<activeTab, faceMounted, regForm, regStatus, isRegistering, freqs,
                   videoRef, srcObject, liveStreams, camPending, nextStream,
                   intervalRef, timers, nextTimer, recognitionResult>>
    /\ UNCHANGED <<hookVars, pageVars, formVars, payloadVars, contactVars>>

RecognizeOk ==
    /\ recPending > 0
    /\ recPending' = recPending - 1
    /\ recognitionResult' = IF faceMounted THEN TRUE ELSE recognitionResult
    /\ UNCHANGED <<activeTab, faceMounted, regForm, regStatus, isRegistering, freqs,
                   videoRef, srcObject, liveStreams, camPending, nextStream,
                   intervalRef, timers, nextTimer>>
    /\ UNCHANGED <<hookVars, pageVars, formVars, payloadVars, contactVars>>

RecognizeFail ==
    /\ recPending > 0
    /\ recPending' = recPending - 1
    /\ UNCHANGED <<activeTab, faceMounted, regForm, regStatus, isRegistering, freqs,
                   videoRef, srcObject, liveStreams, camPending, nextStream,
                   intervalRef, timers, nextTimer, recognitionResult>>
    /\ UNCHANGED <<hookVars, pageVars, formVars, payloadVars, contactVars>>

FormShown == faceMounted /\ StatusRendered(activeTab)

faceCamera == <<videoRef, srcObject, liveStreams, camPending, nextStream, intervalRef,
                timers, nextTimer, recPending, recognitionResult>>

TypeName(v) ==
    /\ FormShown
    /\ v # regForm.name
    /\ regForm' = [regForm EXCEPT !.name = v]
    /\ UNCHANGED <<activeTab, faceMounted, regStatus, isRegistering, freqs, faceCamera>>
    /\ UNCHANGED <<hookVars, pageVars, formVars, payloadVars, contactVars>>

TypeRelation(v) ==
    /\ FormShown
    /\ v # regForm.relation
    /\ regForm' = [regForm EXCEPT !.relation = v]
    /\ UNCHANGED <<activeTab, faceMounted, regStatus, isRegistering, freqs, faceCamera>>
    /\ UNCHANGED <<hookVars, pageVars, formVars, payloadVars, contactVars>>

\* handleFileChange: a file list without a file changes nothing
HandleFileChange(f) ==
    /\ FormShown
    /\ f # regForm.file
    /\ regForm' = [regForm EXCEPT !.file = f]
    /\ UNCHANGED <<activeTab, faceMounted, regStatus, isRegistering, freqs, faceCamera>>
    /\ UNCHANGED <<hookVars, pageVars, formVars, payloadVars, contactVars>>

\* !name || !relation || !file
RegisterComplete(f) == f.name # "" /\ f.relation # "" /\ f.file # Null

\* handleRegister: validation, then the request; the button is disabled while
\* a registration is under way
HandleRegister ==
    /\ FormShown
    /\ IF ~RegisterComplete(regForm)
       THEN /\ regStatus' = Status("error", "Please fill all fields and select an image.")
            /\ UNCHANGED <<isRegistering, freqs>>
       ELSE /\ ~isRegistering
            /\ isRegistering' = TRUE
            /\ regStatus' = NoStatus
            /\ freqs' = Append(freqs, regForm)
    /\ UNCHANGED <<activeTab, faceMounted, regForm, faceCamera>>
    /\ UNCHANGED <<hookVars, pageVars, formVars, payloadVars, contactVars>>

RegisterOk ==
    /\ freqs # <<>>
    /\ freqs' = Tail(freqs)
    /\ IF faceMounted
       THEN /\ regStatus' = Status("success", "Successfully registered")
            /\ regForm' = RegForm("", "", Null)
            /\ isRegistering' = FALSE
       ELSE UNCHANGED <<regStatus, regForm, isRegistering>>
    /\ UNCHANGED <<activeTab, faceMounted, faceCamera>>
    /\ UNCHANGED <<hookVars, pageVars, formVars, payloadVars, contactVars>>

RegisterFail ==
    /\ freqs # <<>>
    /\ freqs' = Tail(freqs)
    /\ IF faceMounted
       THEN /\ regStatus' = Status("error", "Registration failed.")
            /\ isRegistering' = FALSE
       ELSE UNCHANGED <<regStatus, isRegistering>>
    /\ UNCHANGED <<activeTab, faceMounted, regForm, faceCamera>>
    /\ UNCHANGED <<hookVars, pageVars, formVars, payloadVars, contactVars>>

----------------------------------------------------------------------------
\* The SOS settings page (SOSSettings): the emergency contacts

\* the backend gives out at most this many contact identifiers
MaxContacts == 2

ContactIds == 1..MaxContacts

TypedPhones == {"", "5"}

NoContact == [name |-> "", phone |-> ""]

Range(s) == {s[i] : i \in 1..Len(s)}

\* contacts.filter(c => c.id !== contactId)
RECURSIVE Without(_, _)
Without(s, id) ==
    IF s = <<>> THEN <<>>
    ELSE IF Head(s) = id THEN Without(Tail(s), id)
    ELSE <<Head(s)>> \o Without(Tail(s), id)

\* the backend stores a created contact after the ones it holds
ServerAfterCreate(stored, id) == Append(stored, id)

\* the backend removes a deleted contact
ServerAfterDelete(stored, id) == Without(stored, id)

\* a request with the contacts and the form its handler saw when it was called
CReq(op, id, seen, data) == [op |-> op, id |-> id, seen |-> seen, data |-> data]

ContactRoom == Len(creqs) < MaxInFlight

\* loading: the page shows a spinner until fetchData has settled
SosLoading == \E i \in 1..Len(creqs) : creqs[i].op = "load"

FetchDataOk(i) ==
    /\ i \in 1..Len(creqs)
    /\ creqs[i].op = "load"
    /\ creqs' = Remove(creqs, i)
    /\ contacts' = srvContacts
    /\ UNCHANGED <<srvContacts, nextContactId, newContact, showAddModal, sosSaving,
                   sosToast, prompt>>
    /\ UNCHANGED <<hookVars, pageVars, formVars, payloadVars, faceVars>>

FetchDataFail(i) ==
    /\ i \in 1..Len(creqs)
    /\ creqs[i].op = "load"
    /\ creqs' = Remove(creqs, i)
    /\ sosToast' = "Failed to load SOS settings"
    /\ UNCHANGED <<contacts, srvContacts, nextContactId, newContact, showAddModal,
                   sosSaving, prompt>>
    /\ UNCHANGED <<hookVars, pageVars, formVars, payloadVars, faceVars>>

OpenAddModal ==
    /\ ~SosLoading
    /\ ~showAddModal
    /\ showAddModal' = TRUE
    /\ UNCHANGED <<contacts, srvContacts, nextContactId, newContact, sosSaving, creqs,
                   sosToast, prompt>>
    /\ UNCHANGED <<hookVars, pageVars, formVars, payloadVars, faceVars>>

\* Cancel in the dialog
CloseAddModal ==
    /\ showAddModal
    /\ showAddModal' = FALSE
    /\ newContact' = NoContact
    /\ UNCHANGED <<contacts, srvContacts, nextContactId, sosSaving, creqs, sosToast,
                   prompt>>
    /\ UNCHANGED <<hookVars, pageVars, formVars, payloadVars, faceVars>>

TypeContactName(v) ==
    /\ showAddModal
    /\ v # newContact.name
    /\ newContact' = [newContact EXCEPT !.name = v]
    /\ UNCHANGED <<contacts, srvContacts, nextContactId, showAddModal, sosSaving, creqs,
                   sosToast, prompt>>
    /\ UNCHANGED <<hookVars, pageVars, formVars, payloadVars, faceVars>>

TypeContactPhone(v) ==
    /\ showAddModal
    /\ v # newContact.phone
    /\ newContact' = [newContact EXCEPT !.phone = v]
    /\ UNCHANGED <<contacts, srvContacts, nextContactId, showAddModal, sosSaving, creqs,
                   sosToast, prompt>>
    /\ UNCHANGED <<hookVars, pageVars, formVars, payloadVars, faceVars>>

ContactCompleteNameOnly(c) == c.name # ""

\* !newContact.name || !newContact.phone
ContactComplete(c) == c.name # "" /\ c.phone # ""

\* handleAddContact: validation, then the request; the button is disabled
\* while saving is set
HandleAddContact ==
    /\ showAddModal
    /\ IF ~ContactComplete(newContact)
       THEN /\ sosToast' = "Name and phone number are required"
            /\ UNCHANGED <<sosSaving, creqs>>
       ELSE /\ ~sosSaving
            /\ ContactRoom
            /\ nextContactId <= MaxContacts
            /\ sosSaving' = TRUE
            /\ creqs' = Append(creqs, CReq("create", 0, contacts, newContact))
            /\ UNCHANGED sosToast
    /\ UNCHANGED <<contacts, srvContacts, nextContactId, newContact, showAddModal, prompt>>
    /\ UNCHANGED <<hookVars, pageVars, formVars, payloadVars, faceVars>>

\* setContacts([...contacts, response.data]) with the contacts the handler saw
ContactAddOk(i) ==
    /\ i \in 1..Len(creqs)
    /\ creqs[i].op = "create"
    /\ nextContactId <= MaxContacts
    /\ creqs' = Remove(creqs, i)
    /\ srvContacts' = ServerAfterCreate(srvContacts, nextContactId)
    /\ nextContactId' = nextContactId + 1
    /\ contacts' = Append(creqs[i].seen, nextContactId)
    /\ showAddModal' = FALSE
    /\ newContact' = NoContact
    /\ sosToast' = "Emergency contact added successfully"
    /\ sosSaving' = FALSE
    /\ UNCHANGED prompt
    /\ UNCHANGED <<hookVars, pageVars, formVars, payloadVars, faceVars>>

ContactAddFail(i) ==
    /\ i \in 1..Len(creqs)
    /\ creqs[i].op = "create"
    /\ creqs' = Remove(creqs, i)
    /\ sosToast' = "Failed to add emergency contact"
    /\ sosSaving' = FALSE
    /\ UNCHANGED <<contacts, srvContacts, nextContactId, newContact, showAddModal, prompt>>
    /\ UNCHANGED <<hookVars, pageVars, formVars, payloadVars, faceVars>>

DeleteProceedsUnasked(accepted) == TRUE

\* if (!confirm(...)) return
DeleteProceeds(accepted) == accepted

\* handleDeleteContact(contact.id) from the contact's row, and the answer to
\* the confirm() prompt
HandleDeleteContact(id, accepted) ==
    /\ ~SosLoading
    /\ id \in Range(contacts)
    /\ prompt' = IF accepted THEN "accepted" ELSE "declined"
    /\ IF DeleteProceeds(accepted)
       THEN /\ ContactRoom
            /\ creqs' = Append(creqs, CReq("delete", id, contacts, NoContact))
       ELSE UNCHANGED creqs
    /\ UNCHANGED <<contacts, srvContacts, nextContactId, newContact, showAddModal,
                   sosSaving, sosToast>>
    /\ UNCHANGED <<hookVars, pageVars, formVars, payloadVars, faceVars>>

\* setContacts(contacts.filter(...)) with the contacts the handler saw
ContactDeleteOk(i) ==
    /\ i \in 1..Len(creqs)
    /\ creqs[i].op = "delete"
    /\ creqs[i].id \in Range(srvContacts)
    /\ creqs' = Remove(creqs, i)
    /\ srvContacts' = ServerAfterDelete(srvContacts, creqs[i].id)
    /\ contacts' = Without(creqs[i].seen, creqs[i].id)
    /\ sosToast' = "Emergency contact removed"
    /\ UNCHANGED <<nextContactId, newContact, showAddModal, sosSaving, prompt>>
    /\ UNCHANGED <<hookVars, pageVars, formVars, payloadVars, faceVars>>

ContactDeleteFail(i) ==
    /\ i \in 1..Len(creqs)
    /\ creqs[i].op = "delete"
    /\ creqs' = Remove(creqs, i)
    /\ sosToast' = "Failed to remove emergency contact"
    /\ UNCHANGED <<contacts, srvContacts, nextContactId, newContact, showAddModal,
                   sosSaving, prompt>>
    /\ UNCHANGED <<hookVars, pageVars, formVars, payloadVars, faceVars>>

\* handleSaveConfig shares the saving flag with the add-contact dialog
HandleSaveConfig ==
    /\ ~SosLoading
    /\ ~sosSaving
    /\ ContactRoom
    /\ sosSaving' = TRUE
    /\ creqs' = Append(creqs, CReq("config", 0, contacts, NoContact))
    /\ UNCHANGED <<contacts, srvContacts, nextContactId, newContact, showAddModal,
                   sosToast, prompt>>
    /\ UNCHANGED <<hookVars, pageVars, formVars, payloadVars, faceVars>>

SaveConfigDone(i, ok) ==
    /\ i \in 1..Len(creqs)
    /\ creqs[i].op = "config"
    /\ creqs' = Remove(creqs, i)
    /\ sosToast' = IF ok THEN "SOS settings saved successfully"
                   ELSE "Failed to save SOS settings"
    /\ sosSaving' = FALSE
    /\ UNCHANGED <<contacts, srvContacts, nextContactId, newContact, showAddModal, prompt>>
    /\ UNCHANGED <<hookVars, pageVars, formVars, payloadVars, faceVars>>

----------------------------------------------------------------------------
\* Specifications

\* the settings page as constructed, before it is opened
PageClosed ==
    /\ profile = Fields("", "")
    /\ originalProfile = Fields("", "")
    /\ loading = TRUE
    /\ saving = FALSE
    /\ hasUnsavedChanges = FALSE
    /\ showUnsavedModal = FALSE
    /\ pendingNavigation = 0
    /\ blockNavigationRef = FALSE
    /\ histPos = 0
    /\ srvProfile = Fields("a", "x")
    /\ preq = <<>>
    /\ deleteConfirmText = ""
    /\ token = TRUE
    /\ modalOutcome = "none"
    /\ redirected = FALSE
    /\ message = NoMessage

\* the password forms as constructed
FormClosed ==
    /\ password = <<>>
    /\ confirmPassword = <<>>
    /\ submitted = NoSubmission

\* the hook where no component uses it
HookClosed ==
    /\ activeAlert = NoAlert
    /\ alertHistory = <<>>
    /\ isLoading = TRUE
    /\ isTestMode = FALSE
    /\ pollInterval = FALSE
    /\ mounted = FALSE
    /\ loadPending = 0
    /\ inflight = <<>>
    /\ srv = [id \in AlertIds |-> [status |-> "none", is_test |-> FALSE, loc |-> "none"]]
    /\ nextId = 1
    /\ userActive = FALSE
    /\ ev = NoEv
    /\ lastApplied = NoAlert
    /\ lastLate = FALSE

\* no call of triggerAlert is being prepared
PayloadClosed ==
    /\ options = [isTest |-> Omitted(FALSE), location |-> "none",
                  batteryLevel |-> Omitted(0), connectionStatus |-> Omitted("")]
    /\ alertData = NoPayload

\* the face page where it is not mounted
FaceClosed ==
    /\ activeTab = "register"
    /\ faceMounted = FALSE
    /\ regForm = RegForm("", "", Null)
    /\ regStatus = NoStatus
    /\ isRegistering = FALSE
    /\ freqs = <<>>
    /\ videoRef = FALSE
    /\ srcObject = 0
    /\ liveStreams = {}
    /\ camPending = 0
    /\ nextStream = 1
    /\ intervalRef = 0
    /\ timers = {}
    /\ nextTimer = 1
    /\ recPending = 0
    /\ recognitionResult = FALSE

\* the SOS settings page where it is not mounted
ContactsClosed ==
    /\ contacts = <<>>
    /\ srvContacts = <<>>
    /\ nextContactId = 1
    /\ newContact = NoContact
    /\ showAddModal = FALSE
    /\ sosSaving = FALSE
    /\ creqs = <<>>
    /\ sosToast = ""
    /\ prompt = "none"

\* the other views as constructed
ViewClosed ==
    /\ PayloadClosed
    /\ FaceClosed
    /\ ContactsClosed

\* the state after the first render and the mount effect
Init ==
    /\ PageClosed
    /\ FormClosed
    /\ ViewClosed
    /\ activeAlert = NoAlert
    /\ alertHistory = <<>>
    /\ isLoading = TRUE
    /\ isTestMode = FALSE
    /\ pollInterval = TRUE
    /\ mounted = TRUE
    /\ loadPending = 2
    /\ inflight = <<Req("getActive", 0, FALSE, "none", "init", 0),
                    Req("getHistory", 0, FALSE, "none", "init", 0)>>
    /\ srv = [id \in AlertIds |-> [status |-> "none", is_test |-> FALSE, loc |-> "none"]]
    /\ nextId = 1
    /\ userActive = TRUE
    /\ ev = NoEv
    /\ lastApplied = NoAlert
    /\ lastLate = FALSE

\* what happens whatever the user does: the timer, the backend, the completions
Background ==
    \/ PollTick
    \/ \E i \in 1..MaxInFlight : ServerProcess(i)
    \/ \E i \in 1..MaxInFlight : DeliverOk(i)
    \/ \E i \in 1..MaxInFlight : DeliverFail(i)

\* the alert lifecycle: an alert raised with its location and address
Lifecycle ==
    \/ TriggerAlert(FALSE, "addr")
    \/ \E id \in KnownIds : AcknowledgeAlert(id)
    \/ \E id \in KnownIds : ResolveAlert(id)
    \/ CancelAlert
    \/ UpdateAlertLocation

Next ==
    \/ Background
    \/ Lifecycle

Spec == Init /\ [][Next]_vars

\* the alert is raised with every kind of location and with the test flag
NextTrigger ==
    \/ Background
    \/ \E isTest \in BOOLEAN, loc \in TriggerLocs : TriggerAlert(isTest, loc)
    \/ \E id \in KnownIds : ResolveAlert(id)

SpecTrigger == Init /\ [][NextTrigger]_vars

\* the whole hook: the lifecycle, the history being cleared, the unmount
NextHook ==
    \/ Background
    \/ Lifecycle
    \/ ClearHistory
    \/ Unmount

SpecHook == Init /\ [][NextHook]_vars

\* the user stops at some point; the timer keeps ticking, every request
\* completes and polls are answered again and again
NextLive ==
    \/ Background
    \/ Lifecycle
    \/ StopUser

PollServed == \E i \in 1..Len(inflight) : inflight[i].op = "getActive" /\ ServerProcess(i)

PollAnswered == \E i \in 1..Len(inflight) : inflight[i].op = "getActive" /\ DeliverOk(i)

OldestCompletes == DeliverOk(1) \/ DeliverFail(1)

LiveSpec ==
    /\ Init
    /\ [][NextLive]_vars
    /\ WF_vars(PollTick)
    /\ WF_vars(OldestCompletes)
    /\ SF_vars(PollServed)
    /\ SF_vars(PollAnswered)

\* the settings page after its first render and the mount effect: the profile
\* is being fetched, the page is one history entry after the page before it
InitProfile ==
    /\ HookClosed
    /\ FormClosed
    /\ ViewClosed
    /\ profile = Fields("", "")
    /\ originalProfile = Fields("", "")
    /\ loading = TRUE
    /\ saving = FALSE
    /\ hasUnsavedChanges = FALSE
    /\ showUnsavedModal = FALSE
    /\ pendingNavigation = 0
    /\ blockNavigationRef = FALSE
    /\ histPos = 1
    /\ srvProfile \in {Fields(n, e) : n \in ServerNames, e \in ServerEmails}
    /\ preq = <<PReq("getProfile", "", "", FALSE, 0)>>
    /\ deleteConfirmText = ""
    /\ token = TRUE
    /\ modalOutcome = "none"
    /\ redirected = FALSE
    /\ message = NoMessage

\* the form of the settings page, its saves and the navigation guard
NextProfile ==
    \/ \E i \in 1..MaxInFlight : FetchProfileOk(i)
    \/ \E i \in 1..MaxInFlight : FetchProfileFail(i)
    \/ \E v \in TypedNames : EditName(v)
    \/ \E v \in TypedEmails : EditEmail(v)
    \/ SaveClick
    \/ ModalSave
    \/ \E i \in 1..MaxInFlight : SaveOk(i)
    \/ \E i \in 1..MaxInFlight : SaveFail(i)
    \/ Back
    \/ Discard
    \/ CancelModal
    \/ MessageTimeout

SpecProfile == InitProfile /\ [][NextProfile]_vars

\* the settings page with its profile loaded and the delete-account dialog
InitDelete ==
    /\ HookClosed
    /\ FormClosed
    /\ ViewClosed
    /\ profile = Fields("a", "x")
    /\ originalProfile = Fields("a", "x")
    /\ loading = FALSE
    /\ saving = FALSE
    /\ hasUnsavedChanges = FALSE
    /\ showUnsavedModal = FALSE
    /\ pendingNavigation = 0
    /\ blockNavigationRef = FALSE
    /\ histPos = 1
    /\ srvProfile = Fields("a", "x")
    /\ preq = <<>>
    /\ deleteConfirmText = ""
    /\ token = TRUE
    /\ modalOutcome = "none"
    /\ redirected = FALSE
    /\ message = NoMessage

NextDelete ==
    \/ \E v \in DeleteTexts : TypeDeleteText(v)
    \/ HandleDeleteAccount
    \/ \E i \in 1..MaxInFlight : DeleteOk(i)
    \/ \E i \in 1..MaxInFlight : DeleteFail(i)
    \/ \E v \in TypedNames : EditName(v)
    \/ SaveClick
    \/ \E i \in 1..MaxInFlight : SaveOk(i)
    \/ \E i \in 1..MaxInFlight : SaveFail(i)
    \/ MessageTimeout

SpecDelete == InitDelete /\ [][NextDelete]_vars

\* the password forms with every pair of typed passwords
InitForms ==
    /\ HookClosed
    /\ ViewClosed
    /\ profile = Fields("a", "x")
    /\ originalProfile = Fields("a", "x")
    /\ loading = FALSE
    /\ saving = FALSE
    /\ hasUnsavedChanges = FALSE
    /\ showUnsavedModal = FALSE
    /\ pendingNavigation = 0
    /\ blockNavigationRef = FALSE
    /\ histPos = 1
    /\ srvProfile = Fields("a", "x")
    /\ preq = <<>>
    /\ deleteConfirmText = ""
    /\ token = TRUE
    /\ modalOutcome = "none"
    /\ redirected = FALSE
    /\ message = NoMessage
    /\ password \in Passwords
    /\ confirmPassword \in Passwords
    /\ submitted = NoSubmission

NextForms ==
    \/ HandleSubmit
    \/ ResetOk
    \/ ResetFail
    \/ HandleChangePassword
    \/ ChangeOk
    \/ ChangeFail
    \/ MessageTimeout

SpecForms == InitForms /\ [][NextForms]_vars


\* triggerAlert called with every options object
InitPayload ==
    /\ HookClosed
    /\ PageClosed
    /\ FormClosed
    /\ FaceClosed
    /\ ContactsClosed
    /\ options \in OptionSets
    /\ alertData = NoPayload

NextPayload == BuildAlertData

SpecPayload == InitPayload /\ [][NextPayload]_vars

\* the alert lifecycle with a test alert
NextTest ==
    \/ Background
    \/ TriggerAlert(TRUE, "addr")
    \/ \E id \in KnownIds : AcknowledgeAlert(id)
    \/ \E id \in KnownIds : ResolveAlert(id)
    \/ CancelAlert
    \/ UpdateAlertLocation

SpecTest == Init /\ [][NextTest]_vars

\* the form of the settings page, its saves and the profile image
NextImage ==
    \/ \E i \in 1..MaxInFlight : FetchProfileOk(i)
    \/ \E i \in 1..MaxInFlight : FetchProfileFail(i)
    \/ \E v \in TypedNames : EditName(v)
    \/ \E v \in TypedEmails : EditEmail(v)
    \/ SaveClick
    \/ \E i \in 1..MaxInFlight : SaveOk(i)
    \/ \E i \in 1..MaxInFlight : SaveFail(i)
    \/ \E f \in PickedFiles : HandleImageUpload(f)
    \/ HandleDeleteImage
    \/ \E i \in 1..MaxInFlight : ImageOk(i)
    \/ \E i \in 1..MaxInFlight : ImageFail(i)
    \/ MessageTimeout

SpecImage == InitProfile /\ [][NextImage]_vars

\* the face page after its first render: the register tab, and the mount effect
\* has run stopCamera with nothing to stop
FaceMounted ==
    /\ activeTab = "register"
    /\ faceMounted = TRUE
    /\ regForm = RegForm("", "", Null)
    /\ regStatus = NoStatus
    /\ isRegistering = FALSE
    /\ freqs = <<>>
    /\ videoRef = FALSE
    /\ srcObject = 0
    /\ liveStreams = {}
    /\ camPending = 0
    /\ nextStream = 1
    /\ intervalRef = 0
    /\ timers = {}
    /\ nextTimer = 1
    /\ recPending = 0
    /\ recognitionResult = FALSE

\* the SOS settings page after its first render: fetchData is under way
ContactsMounted ==
    /\ contacts = <<>>
    /\ srvContacts \in {<<>>, <<1>>}
    /\ nextContactId = Len(srvContacts) + 1
    /\ newContact = NoContact
    /\ showAddModal = FALSE
    /\ sosSaving = FALSE
    /\ creqs = <<CReq("load", 0, <<>>, NoContact)>>
    /\ sosToast = ""
    /\ prompt = "none"

InitFace ==
    /\ HookClosed
    /\ PageClosed
    /\ FormClosed
    /\ PayloadClosed
    /\ ContactsClosed
    /\ FaceMounted

RegisterForm ==
    \/ \E v \in TypedText : TypeName(v)
    \/ \E v \in TypedText : TypeRelation(v)
    \/ \E f \in PickedPhotos : HandleFileChange(f)
    \/ HandleRegister
    \/ RegisterOk
    \/ RegisterFail

NextFace ==
    \/ \E tab \in Tabs : SetActiveTab(tab)
    \/ CameraGranted
    \/ CameraDenied
    \/ UnmountFace
    \/ RecognitionTick
    \/ RecognizeOk
    \/ RecognizeFail
    \/ RegisterForm

SpecFace == InitFace /\ [][NextFace]_vars

InitContacts ==
    /\ HookClosed
    /\ PageClosed
    /\ FormClosed
    /\ PayloadClosed
    /\ FaceClosed
    /\ ContactsMounted

AddForm ==
    \/ OpenAddModal
    \/ CloseAddModal
    \/ \E v \in TypedText : TypeContactName(v)
    \/ \E v \in TypedPhones : TypeContactPhone(v)
    \/ HandleAddContact

\* the requests succeed
ContactsSucceed ==
    \/ \E i \in 1..MaxInFlight : FetchDataOk(i)
    \/ \E i \in 1..MaxInFlight : ContactAddOk(i)
    \/ \E i \in 1..MaxInFlight : ContactDeleteOk(i)
    \/ \E i \in 1..MaxInFlight : SaveConfigDone(i, TRUE)

ContactsFail ==
    \/ \E i \in 1..MaxInFlight : FetchDataFail(i)
    \/ \E i \in 1..MaxInFlight : ContactAddFail(i)
    \/ \E i \in 1..MaxInFlight : ContactDeleteFail(i)
    \/ \E i \in 1..MaxInFlight : SaveConfigDone(i, FALSE)

ContactsUser ==
    \/ AddForm
    \/ \E id \in ContactIds, accepted \in BOOLEAN : HandleDeleteContact(id, accepted)
    \/ HandleSaveConfig

NextContacts ==
    \/ ContactsUser
    \/ ContactsSucceed
    \/ ContactsFail

SpecContacts == InitContacts /\ [][NextContacts]_vars

\* the behaviours in which no request fails
NextOverlap ==
    \/ ContactsUser
    \/ ContactsSucceed

SpecOverlap == InitContacts /\ [][NextOverlap]_vars

\* both forms open: the register tab of the face page and the SOS settings page
InitValidation ==
    /\ HookClosed
    /\ PageClosed
    /\ FormClosed
    /\ PayloadClosed
    /\ FaceMounted
    /\ ContactsMounted

NextValidation ==
    \/ RegisterForm
    \/ AddForm
    \/ \E i \in 1..MaxInFlight : FetchDataOk(i)
    \/ \E i \in 1..MaxInFlight : ContactAddOk(i)
    \/ \E i \in 1..MaxInFlight : ContactAddFail(i)

SpecValidation == InitValidation /\ [][NextValidation]_vars

----------------------------------------------------------------------------
\* Properties

Slots == 1..MaxInFlight

Last(s) == s[Len(s)]

\* C1: once no request is in flight, the active-alert slot is what the most
\* recently applied response prescribed (its alert, or empty after a resolve or
\* a null poll), whatever the order in which the requests were issued.
LastResponseWins == inflight = <<>> => activeAlert = lastApplied

\* the last response applied belonged to a request that a later request had
\* overtaken, and the slot now differs from the backend's active alert
LastResponseWinsWitness ==
    /\ inflight = <<>>
    /\ lastLate
    /\ activeAlert = lastApplied
    /\ activeAlert # ServerActive(srv)

\* C2: when the user stops, the hook stays mounted and polls keep being
\* answered, the slot eventually equals the backend's active alert for good.
SelfHealing == (<>[](~userActive)) => <>[](activeAlert = ServerActive(srv))

\* the user has stopped, nothing is in flight, and an overtaken response has
\* left a stale alert in the slot
SelfHealingWitness ==
    /\ ~userActive
    /\ inflight = <<>>
    /\ lastLate
    /\ activeAlert # ServerActive(srv)

\* C3: the success handler of resolveAlert and cancelAlert clears the slot and
\* issues a history fetch, in the same step, so the fetch is never issued with
\* the slot still occupied.
ResolveClearsThenFetches ==
    [][\A i \in Slots :
         (DeliverOk(i) /\ inflight[i].op \in {"resolve", "cancel"})
         => /\ activeAlert' = NoAlert
            /\ isTestMode' = FALSE
            /\ Len(inflight') = Len(inflight)
            /\ Last(inflight').op = "getHistory"
            /\ Last(inflight').st = "sent"
            /\ Last(inflight').tag = inflight[i].op]_vars

\* a cancel has succeeded: its history fetch is in flight and the slot is empty
ResolveClearsThenFetchesWitness ==
    /\ activeAlert = NoAlert
    /\ \E k \in 1..Len(inflight) :
         inflight[k].op = "getHistory" /\ inflight[k].tag = "cancel"
    /\ srv[1].status = "resolved"

\* C4: the slot is empty or holds an alert that is active or acknowledged.
SlotNeverResolved == activeAlert.status \in {"none", "active", "acknowledged"}

\* C5: acknowledgeAlert leaves the slot alone when it sends its request and
\* while the backend serves it; its success handler puts the returned alert,
\* whose status is acknowledged, in the slot.
AcknowledgeReplaces ==
    [][/\ \A id \in AlertIds : AcknowledgeAlert(id) => activeAlert' = activeAlert
       /\ \A i \in Slots :
            (ServerProcess(i) /\ inflight[i].op = "ack") => activeAlert' = activeAlert
       /\ \A i \in Slots :
            (DeliverOk(i) /\ inflight[i].op = "ack")
            => /\ activeAlert' = inflight[i].data
               /\ activeAlert'.status = "acknowledged"
               /\ activeAlert'.id = inflight[i].id]_vars

\* an acknowledgement has been applied
AcknowledgeReplacesWitness ==
    /\ activeAlert.status = "acknowledged"
    /\ ev.toast = "success"
    /\ lastApplied = activeAlert

\* C6: the catch blocks of acknowledgeAlert, resolveAlert and cancelAlert leave
\* the slot, the test-mode flag and the history as they are and issue no request.
FailureLeavesState ==
    [][\A i \in Slots :
         (DeliverFail(i) /\ inflight[i].op \in {"ack", "resolve", "cancel"})
         => /\ UNCHANGED <<activeAlert, isTestMode, alertHistory>>
            /\ inflight' = Remove(inflight, i)]_vars

\* a resolve has just failed with an alert in the slot
FailureLeavesStateWitness ==
    /\ ev.fail = "resolve"
    /\ activeAlert # NoAlert

\* C7: triggerAlert geocodes exactly once when the location has no address and
\* not at all otherwise; when geocoding fails the create request is sent with
\* the address absent; the alert the backend returns becomes the active alert.
GeocodeOnce ==
    [][/\ \A isTest \in BOOLEAN, loc \in TriggerLocs :
            TriggerAlert(isTest, loc)
            => /\ Last(inflight').op = (IF loc = "coords" THEN "geocode" ELSE "create")
               /\ Last(inflight').geo = (IF loc = "coords" THEN 1 ELSE 0)
               /\ Last(inflight').loc = loc
       /\ \A i \in Slots :
            (DeliverFail(i) /\ inflight[i].op = "geocode")
            => /\ Last(inflight').op = "create"
               /\ Last(inflight').geo = 1
               /\ Last(inflight').loc = "coords"
       /\ \A i \in Slots :
            (DeliverOk(i) /\ inflight[i].op = "geocode")
            => /\ Last(inflight').op = "create"
               /\ Last(inflight').geo = 1
               /\ Last(inflight').loc = "addr"
       /\ \A i \in Slots :
            (DeliverOk(i) /\ inflight[i].op = "create")
            => /\ activeAlert' = inflight[i].data
               /\ activeAlert'.loc = inflight[i].loc]_vars

\* an alert created after its geocoding failed is the active alert
GeocodeOnceWitness ==
    /\ activeAlert # NoAlert
    /\ activeAlert.loc = "coords"
    /\ ev.toast = "success"

FailureNotifiesAndRejects ==
    ev.fail \in {"create", "ack", "resolve", "cancel", "clearHistory"}
    => ev.toast = "error" /\ ev.promise = "rejected"

\* C10: a failed poll or history fetch shows no failure notification, changes
\* neither the slot, the test-mode flag nor the history, and leaves the timer
\* set: while the hook is mounted the timer is set and ticks.
PollFailureSilent ==
    /\ [][\A i \in Slots :
            (DeliverFail(i) /\ inflight[i].op \in {"getActive", "getHistory"})
            => /\ ev'.toast # "error"
               /\ UNCHANGED <<activeAlert, isTestMode, alertHistory, pollInterval>>]_vars
    /\ [](mounted => pollInterval)
    /\ []((mounted /\ Room) => ENABLED PollTick)

\* a poll has just failed with an alert in the slot and the timer still set
PollFailureSilentWitness ==
    /\ ev.fail = "getActive"
    /\ activeAlert # NoAlert
    /\ mounted
    /\ pollInterval

\* an initial fetch of loadData has not settled yet
InitialFetchInFlight == \E i \in 1..Len(inflight) : inflight[i].tag = "init"

\* C11: isLoading is true exactly as long as one of the two initial fetches
\* has not settled, whether they succeed or fail, and when every request
\* completes it becomes false for good.
LoadingUntilBothSettle ==
    /\ [](isLoading <=> InitialFetchInFlight)
    /\ <>[](~isLoading)

\* loading has just ended with the failure of the initial history fetch
LoadingUntilBothSettleWitness ==
    /\ ~isLoading
    /\ loadPending = 0
    /\ ev.fail = "getHistory"
    /\ nextId = 1

\* C12: the response of updateAlertLocation leaves in the slot an alert with
\* the identifier and the status the slot held, and leaves an empty slot empty.
LocationKeepsLifecycle ==
    [][\A i \in Slots :
        (DeliverOk(i) /\ inflight[i].op = "location")
        => /\ activeAlert'.id = activeAlert.id
           /\ activeAlert'.status = activeAlert.status]_vars

\* the values an update request carried
Sent(r) == Fields(r.name, r.email)

\* a save is awaiting its response
SaveInFlight == \E i \in 1..Len(preq) : preq[i].op = "updateProfile"

\* the frame of a save: the last-saved copy changes only when the profile was
\* fetched or a save succeeded, and a failed save changes neither the flag nor
\* the copies
SaveFrame ==
    \A i \in Slots :
        /\ SaveFail(i) => UNCHANGED <<hasUnsavedChanges, originalProfile, profile>>
        /\ (originalProfile' # originalProfile)
           => \E k \in Slots : SaveOk(k) \/ FetchProfileOk(k)

\* C13 as stated: once loaded the dirty flag is true exactly when the working
\* copy differs from the last-saved copy; a successful save sets the last-saved
\* copy and leaves the flag false; a failed save changes neither.
SaveResetsDirty ==
    /\ []((PageOpen /\ ~loading) => (hasUnsavedChanges <=> Differs(profile, originalProfile)))
    /\ [][/\ SaveFrame
          /\ \A i \in Slots :
                SaveOk(i) => /\ originalProfile' = Sent(preq[i])
                             /\ ~hasUnsavedChanges']_vars

\* C13, amended: a successful save sets the last-saved copy to the values the
\* request carried; the flag is false afterwards unless the working copy was
\* edited while the request was in flight, and then it stays true.
SaveKeepsDirtyTrue ==
    /\ []((PageOpen /\ ~loading) => (hasUnsavedChanges <=> Differs(profile, originalProfile)))
    /\ [][/\ SaveFrame
          /\ \A i \in Slots :
                SaveOk(i) => /\ originalProfile' = Sent(preq[i])
                             /\ PageOpen'
                                => (hasUnsavedChanges' <=> Differs(profile, Sent(preq[i])))
                             /\ UNCHANGED profile]_vars

\* a save has succeeded and the form is dirty: it was edited meanwhile
SaveKeepsDirtyTrueWitness ==
    /\ message.type = "success"
    /\ ~saving
    /\ originalProfile = srvProfile
    /\ hasUnsavedChanges
    /\ Differs(profile, originalProfile)

\* C14: a back attempt while the form is dirty leaves the user on the settings
\* page, on the entry they were on, with the modal open and one pending
\* navigation, the back step; so does a further attempt while the modal is open.
BackWhileDirtyBlocked ==
    /\ []((PageOpen /\ hasUnsavedChanges) => histPos >= 2)
    /\ [][(Back /\ hasUnsavedChanges)
          => /\ histPos' = histPos
             /\ showUnsavedModal'
             /\ pendingNavigation' = -1
             /\ UNCHANGED <<profile, originalProfile, hasUnsavedChanges>>]_vars

\* a back attempt was blocked: the form is dirty, the modal is open
BackWhileDirtyBlockedWitness ==
    /\ hasUnsavedChanges
    /\ showUnsavedModal
    /\ pendingNavigation = -1
    /\ histPos = 2
    /\ preq = <<>>

\* C15: discard reverts the working copy, clears the flag, closes the modal
\* and, after a blocked back attempt, takes the user to the entry that
\* preceded the settings page.
DiscardProceeds ==
    [][Discard
       => /\ profile'.full_name = originalProfile.full_name
          /\ profile'.email = originalProfile.email
          /\ ~hasUnsavedChanges'
          /\ ~showUnsavedModal'
          /\ (pendingNavigation = -1 => histPos' = 0)]_vars

\* C16: whenever the modal is closed and no save is in flight, no pending
\* navigation is recorded.
PendingResolved == (~showUnsavedModal /\ ~SaveInFlight) => pendingNavigation = 0

\* C17: cancel closes the modal and clears the pending navigation; the working
\* copy, the last-saved copy, the flag and the history position stay.
CancelStays ==
    [][CancelModal
       => /\ ~showUnsavedModal'
          /\ pendingNavigation' = 0
          /\ UNCHANGED <<profile, originalProfile, hasUnsavedChanges, histPos>>]_vars

\* cancel was chosen: the modal is closed, the form is still dirty on the
\* pushed entry and nothing is pending
CancelStaysWitness ==
    /\ modalOutcome = "cancel"
    /\ hasUnsavedChanges
    /\ ~showUnsavedModal
    /\ pendingNavigation = 0
    /\ histPos = 2

\* C18: while the page is shown the flag the beforeunload handler reads equals
\* the dirty flag, and once the profile has loaded both tell whether the working copy differs from
\* the last-saved copy.
UnloadBlockedIffDirty ==
    PageOpen => /\ blockNavigationRef = hasUnsavedChanges
                /\ ~loading => (blockNavigationRef <=> Differs(profile, originalProfile))

\* right after a save response: nothing differs and the unload is not blocked
UnloadBlockedIffDirtyWitness ==
    /\ message.type = "success"
    /\ ~saving
    /\ ~blockNavigationRef
    /\ ~hasUnsavedChanges
    /\ profile = originalProfile
    /\ histPos = 2

\* password === confirmPassword and password.length >= 6
PasswordAcceptable == password = confirmPassword /\ Len(password) >= MinPasswordLength

\* C19: a submission sends the request, with the password typed, exactly when
\* the password equals its confirmation and has at least 6 characters; a
\* mismatched pair is reported as not matching, also when it is too short.
SubmitValidated ==
    [][/\ HandleSubmit
          => /\ submitted'.stage = "sent" <=> PasswordAcceptable
             /\ submitted'.stage # "sent" => submitted'.stage = "rejected"
             /\ submitted'.stage = "sent" => submitted'.sent = password
             /\ password # confirmPassword
                => submitted'.toast = "Passwords do not match"
             /\ (password = confirmPassword /\ ~PasswordAcceptable)
                => submitted'.toast = "Password must be at least 6 characters"
       /\ HandleChangePassword
          => /\ submitted'.stage = "sent" <=> PasswordAcceptable
             /\ submitted'.stage # "sent" => submitted'.stage = "rejected"
             /\ submitted'.stage = "sent" => submitted'.sent = password
             /\ password # confirmPassword
                => message'.text = "New passwords do not match"
             /\ (password = confirmPassword /\ ~PasswordAcceptable)
                => message'.text = "Password must be at least 6 characters"]_vars

\* a pair that does not match and is too short was submitted to the reset
\* form and reported as not matching
SubmitValidatedWitness ==
    /\ submitted.form = "reset"
    /\ submitted.stage = "rejected"
    /\ submitted.toast = "Passwords do not match"
    /\ password # confirmPassword
    /\ Len(password) < MinPasswordLength

\* C20: the delete button is disabled unless the text typed is DELETE, and
\* handleDeleteAccount called with any other text issues no request, keeps the
\* token and does not redirect; every delete request was issued with DELETE
\* typed, and the token is removed only when such a request succeeded.
DeleteNeedsExactText ==
    /\ [](DeleteButtonDisabled <=> deleteConfirmText # "DELETE")
    /\ [](\A i \in 1..Len(preq) : preq[i].op = "deleteAccount" => preq[i].name = "DELETE")
    /\ [][(HandleDeleteAccount /\ deleteConfirmText # "DELETE")
          => UNCHANGED <<preq, token, redirected>>]_vars
    /\ [][(token' # token \/ redirected' # redirected)
          => \E i \in Slots : DeleteOk(i)]_vars

\* handleDeleteAccount was called with lowercase delete typed: it reported the
\* error, nothing was sent, the token is kept
DeleteNeedsExactTextWitness ==
    /\ deleteConfirmText = "delete"
    /\ message = Message("error", "Please type DELETE to confirm")
    /\ preq = <<>>
    /\ token
    /\ ~redirected

\* C25: the payload carries the caller's values: battery_level is the level
\* supplied, for every level in 0..100, and null only when none is supplied;
\* is_test is the flag supplied, false when omitted; connection_status is the
\* status supplied, online only when none is supplied.
PayloadCarriesValues ==
    alertData.built
    => /\ options.batteryLevel.given
          => alertData.battery_level = Level(options.batteryLevel.v)
       /\ ~options.batteryLevel.given => alertData.battery_level = NullLevel
       /\ alertData.is_test = (options.isTest.given /\ options.isTest.v)
       /\ options.connectionStatus.given
          => alertData.connection_status = options.connectionStatus.v
       /\ ~options.connectionStatus.given => alertData.connection_status = "online"

\* a cancel request has just been issued
CancelIssued ==
    /\ Len(inflight') = Len(inflight) + 1
    /\ Last(inflight').op = "cancel"

TestFlagAgrees ==
    inflight = <<>> => (isTestMode <=> (activeAlert # NoAlert /\ activeAlert.is_test))

\* C27: when an image request completes, the working copy's name and email,
\* the last-saved copy and the dirty flag are what they were before.
ImageKeepsEdits ==
    [][\A i \in Slots :
        (ImageOk(i) \/ ImageFail(i))
        => UNCHANGED <<profile, originalProfile, hasUnsavedChanges>>]_vars

\* C29: when the initial load completes the form is not dirty and nothing
\* blocks navigation, whatever profile the backend returns.
LoadedIsClean ==
    [][\A i \in Slots :
        FetchProfileOk(i) => /\ ~hasUnsavedChanges'
                             /\ ~blockNavigationRef']_vars

\* C21: when the camera is refused while the recognition tab is shown, the
\* error message is set and is rendered in the view the user is on
DeniedCameraShown ==
    [][(CameraDenied /\ faceMounted /\ activeTab = "recognize")
        => (regStatus'.type = "error" /\ StatusRendered(activeTab'))]_vars

\* C22: a contact is deleted only after the confirm prompt was accepted: a
\* declined prompt issues no request and leaves the contact list as it was,
\* and a delete request that fails leaves the contact list as it was
DeleteNeedsConfirm ==
    [][/\ (\E id \in ContactIds : HandleDeleteContact(id, FALSE))
            => UNCHANGED <<creqs, contacts, srvContacts>>
       /\ (\E i \in Slots : ContactDeleteFail(i))
            => UNCHANGED <<contacts, srvContacts>>
       /\ (Len(creqs') > Len(creqs) /\ Last(creqs').op = "delete")
            => prompt' = "accepted"]_vars

\* a delete request has failed, the prompt was then declined, and the contact
\* is still in the list with nothing in flight
DeleteNeedsConfirmWitness ==
    /\ prompt = "declined"
    /\ sosToast = "Failed to remove emergency contact"
    /\ contacts # <<>>
    /\ contacts = srvContacts
    /\ creqs = <<>>

\* C23: a submission with a required field missing (add contact without name
\* or phone, register face without name, relation or file) issues no request
\* and leaves the contact list and the form fields as they were
IncompleteRejected ==
    [][/\ (HandleAddContact /\ (newContact.name = "" \/ newContact.phone = ""))
            => UNCHANGED <<creqs, contacts, srvContacts, newContact, showAddModal>>
       /\ (HandleRegister
            /\ (regForm.name = "" \/ regForm.relation = "" \/ regForm.file = Null))
            => UNCHANGED <<freqs, regForm, isRegistering, contacts>>]_vars

\* both forms were submitted half filled and were rejected
IncompleteRejectedWitness ==
    /\ sosToast = "Name and phone number are required"
    /\ newContact.name # ""
    /\ newContact.phone = ""
    /\ regStatus = Status("error", "Please fill all fields and select an image.")
    /\ regForm.name # ""
    /\ regForm.file = Null
    /\ creqs = <<>>
    /\ freqs = <<>>

\* C28: once the overlapping add and delete requests have all succeeded, the
\* local contact list holds the contacts the backend holds
ContactsMatchServer ==
    (creqs = <<>>) => (Range(contacts) = Range(srvContacts))

\* C30: off the recognition tab, or with the page unmounted, no camera stream
\* is live and no recognition timer runs; at most one timer runs at any time
CameraOnlyOnTab ==
    /\ (~faceMounted \/ activeTab # "recognize") => (liveStreams = {} /\ timers = {})
    /\ Cardinality(timers) <= 1
====
